---- MODULE Spec2Model ----
(***************************************************************************)
(* Model of server.js of the meeting-transcript utility.  The file holds   *)
(* two variants of the same Express server: the Resend variant (lines      *)
(* 1-234, /send-emails redirects every mail to one fixed test address)     *)
(* and the nodemailer variant (lines 235-439, /send-emails mails every     *)
(* recipient directly).  The model runs one of the two, chosen in Init.    *)
(*                                                                         *)
(* JavaScript values are records tagged by their typeof-class in field t.  *)
(* A JSON object is a TLA+ record whose DOMAIN is its set of keys.  A text *)
(* (the result of a template or of Array.join) is the sequence of the      *)
(* fragments that are concatenated to build it.                            *)
(***************************************************************************)
EXTENDS Integers, Sequences, FiniteSets, TLC

VARIABLES variant, credential, alive, pc, req, idx, processedFiles,
          emailContent, calls, resp, nresp, failed

vars == <<variant, credential, alive, pc, req, idx, processedFiles,
          emailContent, calls, resp, nresp, failed>>

\* ------------------------------------------------------------------ bounds
MaxRecipients == 3
MaxItems == 2
MaxBatch == 3

\* --------------------------------------------------------------- JS values
Undefined == [t |-> "undefined"]
Null == [t |-> "null"]
Str(s) == [t |-> "string", s |-> s]
Txt(fr) == [t |-> "string", fr |-> fr]
Bool(b) == [t |-> "boolean", b |-> b]
Num(n) == [t |-> "number", n |-> n]
Arr(a) == [t |-> "array", a |-> a]
Obj(f) == [t |-> "object", f |-> f]

\* o.k for an object value o: the field, or undefined when the key is absent
Get(o, k) == IF k \in DOMAIN o.f THEN o.f[k] ELSE Undefined

\* the truthiness test of `a || b`
Truthy(v) ==
  CASE v.t = "undefined" -> FALSE
    [] v.t = "null" -> FALSE
    [] v.t = "boolean" -> v.b
    [] v.t = "number" -> v.n # 0
    [] v.t = "string" -> IF "s" \in DOMAIN v THEN v.s # "" ELSE v.fr # <<>>
    [] v.t = "array" -> TRUE
    [] v.t = "object" -> TRUE

\* the typeof operator
TypeOf(v) ==
  CASE v.t = "null" -> "object"
    [] v.t = "array" -> "object"
    [] OTHER -> v.t

\* string coercion inside a template literal, `${v}`
ToStr(v) ==
  CASE v.t = "undefined" -> "undefined"
    [] v.t = "null" -> "null"
    [] v.t = "boolean" -> IF v.b THEN "true" ELSE "false"
    [] v.t = "string" -> v.s
    [] v.t = "object" -> "[object Object]"

\* Array.prototype.join coerces null and undefined elements to ""
JoinElem(v) == IF v.t \in {"undefined", "null"} THEN "" ELSE ToStr(v)

Join(a, sep) ==
  IF Len(a) = 0 THEN <<>>
  ELSE [i \in 1..(2 * Len(a) - 1) |->
          IF i % 2 = 1 THEN JoinElem(a[(i + 1) \div 2]) ELSE sep]

\* a text is the empty string iff all its fragments are
IsEmptyText(tx) == \A i \in DOMAIN tx : tx[i] = ""

Throw(msg) == [ok |-> FALSE, error |-> msg]

\* ------------------------------------------------------ formatEmailContent
testEmail == "markgleasonwork@gmail.com"
NoRecipients == "No recipients selected"
NotSpecified == "Not specified"

\* the map callback without its `|| r` fallback
DisplayOfMutant(r) ==
  IF TypeOf(r) = "string" THEN r ELSE Get(r, "email")

\* r => typeof r === 'string' ? r : r.email || r
DisplayOf(r) ==
  IF TypeOf(r) = "string" THEN r
  ELSE IF Truthy(Get(r, "email")) THEN Get(r, "email") ELSE r

\* the element on which the map callback throws (r.email of null), or 0
FirstNullRecipient(a) ==
  IF \E i \in DOMAIN a : a[i].t \in {"null", "undefined"}
  THEN CHOOSE i \in DOMAIN a : /\ a[i].t \in {"null", "undefined"}
                               /\ \A j \in 1..(i - 1) : a[j].t \notin {"null", "undefined"}
  ELSE 0

\* recipients.length > 0 ? recipients.map(...).join(', ') : 'No recipients selected'
RecipientsList(recipients) ==
  LET rs == IF recipients.t = "undefined" THEN Arr(<<>>) ELSE recipients IN
  IF rs.t = "null" THEN Throw("Cannot read properties of null (reading 'length')")
  ELSE IF Len(rs.a) = 0 THEN [ok |-> TRUE, text |-> <<NoRecipients>>]
  ELSE IF FirstNullRecipient(rs.a) # 0
       THEN Throw("Cannot read properties of null (reading 'email')")
  ELSE [ok |-> TRUE,
        text |-> Join([i \in DOMAIN rs.a |-> DisplayOf(rs.a[i])], ", ")]

\* summary.replace(/\n/g, '<br>')
SummaryHtml(summary) ==
  IF summary.t = "undefined"
  THEN Throw("Cannot read properties of undefined (reading 'replace')")
  ELSE IF summary.t # "string" THEN Throw("summary.replace is not a function")
  ELSE [ok |-> TRUE,
        text |-> [i \in DOMAIN summary.fr |->
                    IF summary.fr[i] = "\n" THEN "<br>" ELSE summary.fr[i]]]

\* the row without the `|| 'Not specified'` fallback of the timeline cell
RowOfMutant(item) ==
  <<ToStr(Get(item, "item")), ToStr(Get(item, "owner")), ToStr(Get(item, "timeline"))>>

\* one <tr> of the action-item table: the three cells
RowOf(item) ==
  <<ToStr(Get(item, "item")),
    ToStr(Get(item, "owner")),
    IF Truthy(Get(item, "timeline")) THEN ToStr(Get(item, "timeline"))
    ELSE NotSpecified>>

\* actionItems.forEach(item => html += <tr>...)
ActionRows(actionItems) ==
  IF actionItems.t = "undefined"
  THEN Throw("Cannot read properties of undefined (reading 'forEach')")
  ELSE IF actionItems.t # "array" THEN Throw("actionItems.forEach is not a function")
  ELSE IF \E i \in DOMAIN actionItems.a : actionItems.a[i].t \in {"null", "undefined"}
       THEN Throw("Cannot read properties of null (reading 'item')")
  ELSE [ok |-> TRUE,
        rows |-> [i \in DOMAIN actionItems.a |-> RowOf(actionItems.a[i])]]

\* formatEmailContent of the Resend variant
formatEmailContentResend(summary, actionItems, recipients) ==
  LET rl == RecipientsList(recipients)
      sh == SummaryHtml(summary)
      ar == ActionRows(actionItems) IN
  IF ~rl.ok THEN rl
  ELSE IF ~sh.ok THEN sh
  ELSE IF ~ar.ok THEN ar
  ELSE [ok |-> TRUE, banner |-> rl.text, note |-> testEmail,
        summary |-> sh.text, rows |-> ar.rows]

\* formatEmailContent of the nodemailer variant: no banner
formatEmailContentMailer(summary, actionItems) ==
  LET sh == SummaryHtml(summary)
      ar == ActionRows(actionItems) IN
  IF ~sh.ok THEN sh
  ELSE IF ~ar.ok THEN ar
  ELSE [ok |-> TRUE, summary |-> sh.text, rows |-> ar.rows]

NoContent == [ok |-> FALSE, error |-> "not rendered"]

\* ---------------------------------------------------- inputs of the renderer
RecipientValues ==
  {Str("a@x.com"), Str(""),
   Obj([name |-> Str("Bob"), email |-> Str("b@x.com")]),
   Obj([name |-> Str("Eve"), email |-> Str("")]),
   Obj([name |-> Str("Dan")]),
   Null}

RECURSIVE SeqsUpTo(_, _)
SeqsUpTo(S, n) ==
  IF n = 0 THEN {<<>>}
  ELSE LET shorter == SeqsUpTo(S, n - 1) IN
       shorter \cup {Append(q, x) : q \in {p \in shorter : Len(p) = n - 1}, x \in S}

RecipientsValues ==
  {Undefined, Null} \cup {Arr(a) : a \in SeqsUpTo(RecipientValues, MaxRecipients)}

\* a record over the keys of both; b wins: {...a, ...b}
Merge(a, b) ==
  [k \in DOMAIN a \cup DOMAIN b |-> IF k \in DOMAIN b THEN b[k] ELSE a[k]]

ActionItemValues ==
  {Obj([id |-> Num(1), item |-> Str("Ship it"), owner |-> Str("Ann"), timeline |-> Str("Friday")]),
   Obj([id |-> Num(2), item |-> Str("Ship it"), owner |-> Str("Ann"), timeline |-> Str("")]),
   Obj([id |-> Num(3), item |-> Str("Ship it"), owner |-> Str("Ann")]),
   Obj([id |-> Num(4), item |-> Str("Call Bob")]),
   Obj([id |-> Num(5), owner |-> Str("Ann")]),
   Null}

ActionItemsValues ==
  {Undefined} \cup {Arr(a) : a \in SeqsUpTo(ActionItemValues, MaxItems)}

SummaryValues == {Undefined, Txt(<<>>), Txt(<<"Line one", "\n", "line two">>)}

\* the arguments of one call of formatEmailContent
RenderInput(s, ai, r) ==
  [route |-> "render", summary |-> s, actionItems |-> ai, recipients |-> r]

\* ------------------------------------------ the renderer as a state machine
NoResp == [kind |-> "none"]

InitRender ==
  /\ variant \in {"resend", "nodemailer"}
  /\ credential = TRUE
  /\ alive = TRUE
  /\ pc = "render"
  /\ \E s \in SummaryValues, ai \in ActionItemsValues, r \in RecipientsValues :
       /\ variant = "nodemailer" => r = Undefined
       /\ req = RenderInput(s, ai, r)
  /\ idx = 0
  /\ processedFiles = <<>>
  /\ emailContent = NoContent
  /\ calls = <<>>
  /\ resp = NoResp
  /\ nresp = 0
  /\ failed = FALSE

RenderResend ==
  /\ pc = "render"
  /\ variant = "resend"
  /\ emailContent' = formatEmailContentResend(req.summary, req.actionItems, req.recipients)
  /\ pc' = "rendered"
  /\ UNCHANGED <<variant, credential, alive, req, idx, processedFiles, calls, resp, nresp, failed>>

RenderMailer ==
  /\ pc = "render"
  /\ variant = "nodemailer"
  /\ emailContent' = formatEmailContentMailer(req.summary, req.actionItems)
  /\ pc' = "rendered"
  /\ UNCHANGED <<variant, credential, alive, req, idx, processedFiles, calls, resp, nresp, failed>>

NextRender == RenderResend \/ RenderMailer

SpecRender == InitRender /\ [][NextRender]_vars

\* ------------------------------------------------------------- /upload
\* upload.array('files', 10)
UploadCap == 10

UpperToLower == [T |-> "t", X |-> "x", C |-> "c", S |-> "s", V |-> "v", A |-> "a"]

\* the extension compared as written, without lower-casing
toLowerCaseMutant(cs) == cs

\* String.prototype.toLowerCase on a sequence of characters
toLowerCase(cs) ==
  [i \in DOMAIN cs |-> IF cs[i] \in DOMAIN UpperToLower THEN UpperToLower[cs[i]] ELSE cs[i]]

\* index of the last "." of a name, 0 when there is none
LastDot(cs) ==
  IF \E i \in DOMAIN cs : cs[i] = "."
  THEN CHOOSE i \in DOMAIN cs : cs[i] = "." /\ \A j \in (i + 1)..Len(cs) : cs[j] # "."
  ELSE 0

\* path.extname: from the last "." to the end; "" when there is no "." or
\* when the only "." is the first character of the name
extname(cs) ==
  IF LastDot(cs) <= 1 THEN <<>> ELSE SubSeq(cs, LastDot(cs), Len(cs))

DotTxt == <<".", "t", "x", "t">>
DotCsv == <<".", "c", "s", "v">>

\* position of a header cell
ColumnOf(header, k) == CHOOSE j \in DOMAIN header : header[j] = k

\* csv-parser: the first line names the columns, one record per later line
csvRecords(lines) ==
  IF Len(lines) = 0 THEN <<>>
  ELSE [i \in 1..(Len(lines) - 1) |->
          [k \in {lines[1][j] : j \in DOMAIN lines[1]} |->
              lines[i + 1][ColumnOf(lines[1], k)]]]

\* parseCSV resolves with the records, or rejects on a stream error
parseCSV(file, streamOk) ==
  IF streamOk THEN [ok |-> TRUE, value |-> Arr(csvRecords(file.lines))]
  ELSE Throw("ENOENT: no such file or directory")

\* fs.readFile(filePath, 'utf-8')
readFile(file, readOk) ==
  IF readOk THEN [ok |-> TRUE, value |-> Str(file.text)]
  ELSE Throw("ENOENT: no such file or directory")

File(name, text, lines) == [name |-> name, text |-> text, lines |-> lines]

ContactLines == <<<<"name", "email">>, <<"Alice", "alice@example.com">>>>

Files ==
  { File(<<"a", ".", "t", "x", "t">>, "meeting notes", <<>>),
    File(<<"a", ".", "T", "X", "T">>, "MEETING NOTES", <<>>),
    File(<<"c", ".", "c", "s", "v">>, "", ContactLines),
    File(<<"c", ".", "C", "s", "V">>, "", <<<<"name", "email">>>>),
    File(<<"d", ".", "p", "d", "f">>, "%PDF", <<>>),
    File(<<".", "t", "x", "t">>, "dotfile", <<>>),
    File(<<"t", "x", "t">>, "no extension", <<>>),
    File(<<"a", ".", "t", "x", "t", ".", "b", "a", "k">>, "backup", <<>>) }

\* a batch of one file more than upload.array accepts
OverCapBatch == [i \in 1..(UploadCap + 1) |-> File(<<"a", ".", "t", "x", "t">>, "meeting notes", <<>>)]

Batches == SeqsUpTo(Files, MaxBatch) \cup {OverCapBatch}

Json(status, body) == [kind |-> "json", status |-> status, body |-> body]

\* res.status(s).json({ success: false, error: error.message })
Failure(status, msg) == Json(status, [success |-> Bool(FALSE), error |-> Str(msg)])

\* Express's built-in error handler: no error middleware is registered, so an
\* error passed to next(err) is answered with an HTML page, not with JSON
DefaultErrorPage(status) == [kind |-> "default", status |-> status]

\* a request arrives: the per-request state starts afresh
Listening == pc = "idle" /\ alive

Arrive(r) ==
  /\ req' = r
  /\ UNCHANGED <<variant, credential>>

\* the handler answers and returns
Answer(r, isFailure) ==
  /\ resp' = r
  /\ nresp' = nresp + 1
  /\ failed' = isFailure
  /\ pc' = "done"

\* multer rejects the batch (more than UploadCap files, or a failed write of
\* an uploaded file): next(err) with no handler of this application run
UploadRejected ==
  /\ Listening
  /\ \E batch \in Batches, writeOk \in BOOLEAN :
    /\ Len(batch) > UploadCap \/ (~writeOk /\ Len(batch) > 0)
    /\ Arrive([route |-> "upload", files |-> Arr(batch)])
    /\ resp' = DefaultErrorPage(500)
    /\ nresp' = 1
    /\ failed' = TRUE
    /\ pc' = "done"
    /\ idx' = 0 /\ processedFiles' = <<>> /\ emailContent' = NoContent /\ calls' = <<>>
    /\ alive' = alive

\* destination: async (req, file, cb) => { await fs.ensureDir(..); cb(..) }:
\* when ensureDir rejects, cb is never called and the rejection is unhandled;
\* depending on the runtime the process exits or the request stays open
UploadEnsureDirFails ==
  /\ Listening
  /\ \E batch \in Batches, exits \in BOOLEAN :
    /\ Len(batch) > 0
    /\ Arrive([route |-> "upload", files |-> Arr(batch)])
    /\ resp' = NoResp
    /\ nresp' = 0
    /\ failed' = TRUE
    /\ pc' = IF exits THEN "exited" ELSE "hung"
    /\ alive' = ~exits
    /\ idx' = 0 /\ processedFiles' = <<>> /\ emailContent' = NoContent /\ calls' = <<>>

\* the handler of /upload starts; req.files is undefined when the request
\* is not multipart, and `for (const file of undefined)` throws
UploadStart ==
  /\ Listening
  /\ \E batch \in Batches, multipart \in BOOLEAN :
    /\ Len(batch) <= UploadCap
    /\ ~multipart => batch = <<>>
    /\ Arrive([route |-> "upload",
               files |-> IF multipart THEN Arr(batch) ELSE Undefined])
    /\ idx' = 1 /\ processedFiles' = <<>> /\ emailContent' = NoContent /\ calls' = <<>>
    /\ alive' = alive
    /\ IF multipart
       THEN /\ pc' = "upload"
            /\ resp' = NoResp /\ nresp' = 0 /\ failed' = FALSE
       ELSE Answer(Failure(500, "files is not iterable"), TRUE)

\* a catch that reports the files read so far along with the error
uploadCatchMutant(error, processed) ==
  Json(500, [success |-> Bool(FALSE), error |-> Str(error), files |-> Arr(processed)])

\* catch (error) { res.status(500).json({ success: false, error: error.message }) }
uploadCatch(error, processed) == Failure(500, error)

\* one iteration of `for (const file of files)`
UploadStep ==
  /\ pc = "upload"
  /\ idx <= Len(req.files.a)
  /\ LET file == req.files.a[idx]
         fileType == toLowerCase(extname(file.name)) IN
     \E ioOk \in BOOLEAN :
       LET r == IF fileType = DotTxt THEN readFile(file, ioOk)
                ELSE parseCSV(file, ioOk) IN
       IF fileType \notin {DotTxt, DotCsv}
       THEN /\ ioOk
            /\ idx' = idx + 1
            /\ UNCHANGED <<processedFiles, resp, nresp, failed, pc>>
       ELSE IF r.ok
       THEN /\ processedFiles' = Append(processedFiles,
                 [name |-> file.name,
                  type |-> IF fileType = DotTxt THEN "transcript" ELSE "contacts",
                  content |-> r.value])
            /\ idx' = idx + 1
            /\ UNCHANGED <<resp, nresp, failed, pc>>
       ELSE /\ Answer(uploadCatch(r.error, processedFiles), TRUE)
            /\ UNCHANGED <<processedFiles, idx>>
  /\ UNCHANGED <<variant, credential, alive, req, emailContent, calls>>

\* res.json({ success: true, files: processedFiles })
UploadDone ==
  /\ pc = "upload"
  /\ idx > Len(req.files.a)
  /\ Answer(Json(200, [success |-> Bool(TRUE), files |-> Arr(processedFiles)]), FALSE)
  /\ UNCHANGED <<variant, credential, alive, req, idx, processedFiles, emailContent, calls>>

\* -------------------------------------------------- /generate-summary
\* express.json() fails on a body that is not JSON: next(err), and Express's
\* built-in handler answers
BodyParseError ==
  /\ Listening
  /\ \E route \in {"generate-summary", "send-emails"} :
    /\ Arrive([route |-> route, malformed |-> TRUE])
    /\ resp' = DefaultErrorPage(400)
    /\ nresp' = 1
    /\ failed' = TRUE
    /\ pc' = "done"
    /\ idx' = 0 /\ processedFiles' = <<>> /\ emailContent' = NoContent /\ calls' = <<>>
    /\ alive' = alive

TranscriptValues == {Undefined, Str("Ann: ship it by Friday.")}

\* the action item the prompt asks for
FullItem == Obj([item |-> Str("Ship it"), owner |-> Str("Ann"), timeline |-> Str("Friday")])

\* what the provider's JSON text may parse to
ParsedValues ==
  {Null, Num(7)} \cup
  {Obj(Merge(Merge(Merge([model |-> Str("gpt")], sm), ai), sc)) :
      sm \in {[model |-> Str("gpt")], [summary |-> Str("")],
              [summary |-> Str("The team agreed to ship.")]},
      ai \in {[model |-> Str("gpt")], [actionItems |-> Arr(<<>>)],
              [actionItems |-> Arr(<<FullItem>>)], [actionItems |-> Str("none")]},
      sc \in {[model |-> Str("gpt")], [success |-> Bool(FALSE)]}}

\* outcomes of openai.chat.completions.create: the call rejects, or resolves
\* with no choice, or with a choice whose content is null, prose or JSON text
ProviderOutcomes ==
  {[kind |-> "reject", error |-> m] : m \in {"401 Incorrect API key", "429 Rate limit"}}
    \cup {[kind |-> "nochoices"], [kind |-> "null"], [kind |-> "prose"]}
    \cup {[kind |-> "json", value |-> v] : v \in ParsedValues}

\* JSON.parse(completion.choices[0].message.content)
JSONparse(o) ==
  CASE o.kind = "reject" -> Throw(o.error)
    [] o.kind = "nochoices" -> Throw("Cannot read properties of undefined (reading 'message')")
    [] o.kind = "null" -> [ok |-> TRUE, value |-> Null]
    [] o.kind = "prose" -> Throw("Unexpected token 'H' is not valid JSON")
    [] o.kind = "json" -> [ok |-> TRUE, value |-> o.value]

\* the own enumerable keys that `...result` copies
Spread(v) == IF v.t = "object" THEN v.f ELSE <<>>

\* the whole handler of /generate-summary (both variants are alike)
GenerateSummary ==
  /\ Listening
  /\ \E transcript \in TranscriptValues, outcome \in ProviderOutcomes :
    LET result == JSONparse(outcome) IN
    /\ Arrive([route |-> "generate-summary", transcript |-> transcript,
               prompt |-> <<"Meeting Transcript:", ToStr(transcript)>>,
               outcome |-> outcome])
    /\ IF result.ok
       THEN Answer(Json(200, Merge([success |-> Bool(TRUE)], Spread(result.value))), FALSE)
       ELSE Answer(Failure(500, result.error), TRUE)
    /\ idx' = 0 /\ processedFiles' = <<>> /\ emailContent' = NoContent /\ calls' = <<>>
    /\ alive' = alive

\* ------------------------------------------------------------ /send-emails
SendActionItems ==
  {Undefined, Arr(<<>>), Arr(<<FullItem>>),
   Arr(<<Obj([item |-> Str("Ship it")]), FullItem>>)}

SendBodies ==
  {[route |-> "send-emails", recipients |-> r, summary |-> s, actionItems |-> ai] :
      r \in RecipientsValues,
      s \in {Undefined, Txt(<<"Line one", "\n", "line two">>)},
      ai \in SendActionItems}

\* const resend = process.env.RESEND_API_KEY ? new Resend(..) : null
resend == credential

ConfigError == "Resend API key not configured. Please add RESEND_API_KEY to environment variables."

DeliveryErrors == {"ECONNREFUSED", "Invalid login"}

\* the mail addressed to the first recipient of the request when it is a string
deliveryTargetMutant(recipients) ==
  IF recipients.t = "array" /\ Len(recipients.a) > 0 /\ recipients.a[1].t = "string"
  THEN recipients.a[1] ELSE Str(testEmail)

\* to: testEmail, whatever the recipients of the request are
deliveryTarget(recipients) == Str(testEmail)

\* the whole handler of /send-emails of the Resend variant
SendEmailsResend ==
  /\ Listening
  /\ variant = "resend"
  /\ \E body \in SendBodies, outcome \in {"data", "error", "throw"}, e \in DeliveryErrors :
    LET content == formatEmailContentResend(body.summary, body.actionItems, body.recipients) IN
    /\ Arrive(body)
    /\ idx' = 0 /\ processedFiles' = <<>>
    /\ alive' = alive
    /\ IF ~resend
       THEN /\ outcome = "data" /\ e = "ECONNREFUSED"
            /\ Answer(Failure(500, ConfigError), TRUE)
            /\ emailContent' = NoContent /\ calls' = <<>>
       ELSE IF ~content.ok
       THEN /\ outcome = "data" /\ e = "ECONNREFUSED"
            /\ Answer(Failure(500, content.error), TRUE)
            /\ emailContent' = content /\ calls' = <<>>
       ELSE /\ emailContent' = content
            /\ calls' = <<[rcpt |-> 0, to |-> deliveryTarget(body.recipients), ok |-> outcome = "data",
                           error |-> IF outcome = "data" THEN "" ELSE e]>>
            /\ outcome = "data" => e = "ECONNREFUSED"
            /\ CASE outcome = "data" ->
                      Answer(Json(200, [success |-> Bool(TRUE),
                                        message |-> <<"Email sent to ", testEmail,
                                                      " with intended recipients listed in the email body">>,
                                        data |-> Obj([id |-> Str("msg-1")])]), FALSE)
                 [] outcome = "error" -> Answer(Failure(400, e), TRUE)
                 [] outcome = "throw" -> Answer(Failure(500, e), TRUE)

\* /send-emails of the nodemailer variant up to the loop: the body is
\* destructured, the mail is rendered, and `for (.. of recipients)` starts
SendEmailsStart ==
  /\ Listening
  /\ variant = "nodemailer"
  /\ \E body \in SendBodies :
    LET content == formatEmailContentMailer(body.summary, body.actionItems) IN
    /\ Arrive(body)
    /\ idx' = 1 /\ processedFiles' = <<>> /\ calls' = <<>>
    /\ alive' = alive
    /\ emailContent' = content
    /\ IF ~content.ok THEN Answer(Failure(500, content.error), TRUE)
       ELSE IF body.recipients.t # "array"
       THEN Answer(Failure(500, "recipients is not iterable"), TRUE)
       ELSE /\ pc' = "send"
            /\ resp' = NoResp /\ nresp' = 0 /\ failed' = FALSE

\* transporter.sendMail rejects a mail that names no recipient
Deliverable(to) == to.t = "string" /\ to.s # ""

\* recipient.email, for a string as for a record
emailOf(recipient) ==
  IF recipient.t = "object" THEN Get(recipient, "email") ELSE Undefined

\* a loop that goes on to the next recipient whatever the call's outcome
loopContinuesMutant(ok) == TRUE

\* `await transporter.sendMail(..)` inside the loop: the next iteration runs
\* only when the call resolved; a rejection leaves the loop for the catch
loopContinues(ok) == ok

\* one iteration of the loop: await transporter.sendMail({to: recipient.email, ..})
SendStep ==
  /\ pc = "send"
  /\ idx <= Len(req.recipients.a)
  /\ LET recipient == req.recipients.a[idx] IN
     \E ok \in BOOLEAN, e \in DeliveryErrors :
       IF recipient.t = "null"
       THEN /\ ok /\ e = "ECONNREFUSED"
            /\ Answer(Failure(500, "Cannot read properties of null (reading 'email')"), TRUE)
            /\ UNCHANGED <<calls, idx>>
       ELSE IF ~Deliverable(emailOf(recipient))
       THEN /\ ok /\ e = "ECONNREFUSED"
            /\ calls' = Append(calls, [rcpt |-> idx, to |-> emailOf(recipient), ok |-> FALSE,
                                       error |-> "No recipients defined"])
            /\ Answer(Failure(500, "No recipients defined"), TRUE)
            /\ UNCHANGED idx
       ELSE IF loopContinues(ok)
       THEN /\ ok => e = "ECONNREFUSED"
            /\ calls' = Append(calls, [rcpt |-> idx, to |-> emailOf(recipient), ok |-> ok,
                                       error |-> IF ok THEN "" ELSE e])
            /\ idx' = idx + 1
            /\ UNCHANGED <<resp, nresp, failed, pc>>
       ELSE /\ calls' = Append(calls, [rcpt |-> idx, to |-> emailOf(recipient), ok |-> FALSE, error |-> e])
            /\ Answer(Failure(500, e), TRUE)
            /\ UNCHANGED idx
  /\ UNCHANGED <<variant, credential, alive, req, processedFiles, emailContent>>

\* res.json({ success: true, message: 'Emails sent successfully' })
SendDone ==
  /\ pc = "send"
  /\ idx > Len(req.recipients.a)
  /\ Answer(Json(200, [success |-> Bool(TRUE), message |-> <<"Emails sent successfully">>]), FALSE)
  /\ UNCHANGED <<variant, credential, alive, req, idx, processedFiles, emailContent, calls>>

\* ------------------------------------------------------------ the server
\* the request is over; the server, still listening, takes the next one
NextRequest ==
  /\ pc = "done"
  /\ alive
  /\ pc' = "idle"
  /\ req' = [route |-> "none"]
  /\ idx' = 0 /\ processedFiles' = <<>> /\ emailContent' = NoContent /\ calls' = <<>>
  /\ resp' = NoResp /\ nresp' = 0 /\ failed' = FALSE
  /\ UNCHANGED <<variant, credential, alive>>

Init ==
  /\ variant \in {"resend", "nodemailer"}
  /\ credential \in BOOLEAN
  /\ alive = TRUE
  /\ pc = "idle"
  /\ req = [route |-> "none"]
  /\ idx = 0
  /\ processedFiles = <<>>
  /\ emailContent = NoContent
  /\ calls = <<>>
  /\ resp = NoResp
  /\ nresp = 0
  /\ failed = FALSE

Next ==
  \/ UploadRejected
  \/ UploadEnsureDirFails
  \/ UploadStart
  \/ UploadStep
  \/ UploadDone
  \/ BodyParseError
  \/ GenerateSummary
  \/ SendEmailsResend
  \/ SendEmailsStart
  \/ SendStep
  \/ SendDone
  \/ NextRequest

Spec == Init /\ [][Next]_vars

\* ------------------------------------------------------------ properties
Done == pc = "done"

\* the request reached the handler of the route
Handled(route) == req.route = route /\ "malformed" \notin DOMAIN req

IsSuccess(r) ==
  /\ r.kind = "json"
  /\ "success" \in DOMAIN r.body
  /\ r.body.success = Bool(TRUE)

\* the response { success: false, error: <string> }
StructuredFailure(r) ==
  /\ r.kind = "json"
  /\ DOMAIN r.body = {"success", "error"}
  /\ r.body.success = Bool(FALSE)
  /\ r.body.error.t = "string"

\* the recipients array of the request; empty when none was supplied
RecipientSeq == IF req.recipients.t = "array" THEN req.recipients.a ELSE <<>>

\* C1: /generate-summary answers either the structured failure or a success
\* whose summary is a non-empty string and whose actionItems is an array.
C1_SummaryContract ==
  (Done /\ Handled("generate-summary")) =>
     \/ StructuredFailure(resp)
     \/ /\ IsSuccess(resp)
        /\ "summary" \in DOMAIN resp.body
        /\ resp.body.summary.t = "string"
        /\ resp.body.summary.s # ""
        /\ "actionItems" \in DOMAIN resp.body
        /\ resp.body.actionItems.t = "array"

C2_Calls ==
  (variant = "nodemailer" /\ Handled("send-emails") /\ pc \in {"send", "done"}) =>
     /\ Len(calls) <= Len(RecipientSeq)
     /\ \A i \in DOMAIN calls : calls[i].rcpt = i
     /\ \A i \in 1..(Len(calls) - 1) : calls[i].ok
     /\ pc = "send" => Len(calls) = idx - 1
     /\ (Len(calls) > 0 /\ ~calls[Len(calls)].ok) =>
           /\ Done
           /\ StructuredFailure(resp)
           /\ resp.body.error = Str(calls[Len(calls)].error)
     /\ IsSuccess(resp) => Len(calls) = Len(RecipientSeq)

C2_Kept == (pc = "send") => (Len(calls') >= Len(calls) /\ SubSeq(calls', 1, Len(calls)) = calls)

\* C2: in direct multi-send mode the k-th delivery call is the one for the
\* k-th recipient, only the last call issued can be a failed one, a failed
\* call ends the request with the structured failure carrying that call's
\* error, and the calls already made stay made.
C2_MultiSend == []C2_Calls /\ [][C2_Kept]_vars

C2_Witness ==
  /\ Done /\ variant = "nodemailer" /\ Handled("send-emails")
  /\ Len(RecipientSeq) = 3
  /\ Len(calls) = 2
  /\ calls[1].ok /\ ~calls[2].ok
  /\ StructuredFailure(resp)

\* C3: in redirect mode a request answered with success has issued exactly
\* one delivery call, to the fixed operator address and to no recipient of
\* the request, and the response names that address.
C3_Redirect ==
  (Done /\ variant = "resend" /\ Handled("send-emails") /\ IsSuccess(resp)) =>
     /\ Len(calls) = 1
     /\ calls[1].to = Str(testEmail)
     /\ \A i \in DOMAIN RecipientSeq :
          RecipientSeq[i].t = "string" => calls[1].to # RecipientSeq[i]
     /\ \E i \in DOMAIN resp.body.message : resp.body.message[i] = testEmail

C3_Witness ==
  /\ Done /\ variant = "resend" /\ Handled("send-emails") /\ IsSuccess(resp)
  /\ Len(RecipientSeq) = 3
  /\ RecipientSeq[1].t = "string" /\ RecipientSeq[1].s # ""
  /\ RecipientSeq[2].t = "object"

\* the same letter, in either case
SameLetter(c, d) ==
  c = d \/ <<c, d>> \in {<<"T", "t">>, <<"X", "x">>, <<"C", "c">>, <<"S", "s">>, <<"V", "v">>}

\* the name is a non-empty stem followed by ext, in any mix of cases
HasExt(name, ext) ==
  /\ Len(name) > Len(ext)
  /\ \A k \in DOMAIN ext : SameLetter(name[Len(name) - Len(ext) + k], ext[k])

TagOf(file) ==
  IF HasExt(file.name, DotTxt) THEN "transcript"
  ELSE IF HasExt(file.name, DotCsv) THEN "contacts" ELSE "none"

RECURSIVE Classified(_)
Classified(files) ==
  IF files = <<>> THEN <<>>
  ELSE IF TagOf(Head(files)) = "none" THEN Classified(Tail(files))
  ELSE <<[name |-> Head(files).name, type |-> TagOf(Head(files))]>> \o Classified(Tail(files))

NameAndType(entries) == [i \in DOMAIN entries |-> [name |-> entries[i].name, type |-> entries[i].type]]

\* C4: a batch handled by /upload is answered with success and exactly the
\* .txt/.csv files (any case), tagged and in upload order, or with the failure
\* of a read; a batch without .txt/.csv files is never answered with a failure.
C4_Classification ==
  (Done /\ Handled("upload") /\ req.files.t = "array" /\ resp.kind = "json") =>
     \/ /\ IsSuccess(resp)
        /\ NameAndType(resp.body.files.a) = Classified(req.files.a)
     \/ /\ StructuredFailure(resp)
        /\ resp.body.error = Str("ENOENT: no such file or directory")
        /\ Classified(req.files.a) # <<>>

C4_Witness ==
  /\ Done /\ Handled("upload") /\ IsSuccess(resp)
  /\ Len(req.files.a) = 3
  /\ Len(resp.body.files.a) = 2
  /\ resp.body.files.a[1].type = "transcript"
  /\ resp.body.files.a[1].name = <<"a", ".", "T", "X", "T">>
  /\ resp.body.files.a[2].type = "contacts"

\* C5: without the email credential /send-emails issues no delivery call and
\* answers the structured failure, and the process stays up, in both variants.
C5_NoCredential ==
  (Handled("send-emails") /\ ~credential /\ pc \in {"send", "done"}) =>
     /\ calls = <<>>
     /\ alive
     /\ Done => StructuredFailure(resp)

\* C6: a request that is over got exactly one response and left the process
\* running, and if a step of it failed the response is the structured failure.
C6_StructuredErrors ==
  /\ pc \in {"done", "hung", "exited"} => (nresp = 1 /\ alive)
  /\ (Done /\ failed) => StructuredFailure(resp)

\* C8: in direct multi-send mode every delivery call is addressed to the
\* email address of the recipient it is for, a bare string being its own
\* address and a record giving its email field.
C8_BothForms ==
  (variant = "nodemailer" /\ Handled("send-emails") /\ pc \in {"send", "done"}) =>
     \A i \in DOMAIN calls :
        LET r == RecipientSeq[calls[i].rcpt] IN
        calls[i].to = (IF r.t = "string" THEN r ELSE Get(r, "email"))

Rendered == pc = "rendered"

\* the text a cell shows for field k: the field, or a marker of its absence
CellOk(cell, it, k) ==
  IF k \in DOMAIN it.f THEN cell = it.f[k].s ELSE cell \in {"", "undefined"}

\* every input is of the expected type; fields of action items may be missing
OnlyFieldsMissing ==
  /\ req.summary.t = "string"
  /\ req.actionItems.t = "array"
  /\ \A i \in DOMAIN req.actionItems.a : req.actionItems.a[i].t = "object"
  /\ variant = "resend" =>
       /\ req.recipients.t \in {"undefined", "array"}
       /\ \A i \in DOMAIN RecipientSeq : RecipientSeq[i].t # "null"

\* C7: formatEmailContent does not fail over a missing field of an action
\* item and renders one row per item, in order: item and owner as they are
\* or as missing text, a missing timeline as "Not specified".
C7_Rows ==
  (Rendered /\ OnlyFieldsMissing) =>
     /\ emailContent.ok
     /\ Len(emailContent.rows) = Len(req.actionItems.a)
     /\ \A i \in DOMAIN req.actionItems.a :
          LET it == req.actionItems.a[i]
              row == emailContent.rows[i] IN
          /\ CellOk(row[1], it, "item")
          /\ CellOk(row[2], it, "owner")
          /\ "timeline" \notin DOMAIN it.f => row[3] = "Not specified"
          /\ ("timeline" \in DOMAIN it.f /\ it.f.timeline.s # "") => row[3] = it.f.timeline.s

C7_Witness ==
  /\ Rendered /\ emailContent.ok
  /\ Len(emailContent.rows) = 2
  /\ "timeline" \notin DOMAIN req.actionItems.a[1].f
  /\ "owner" \notin DOMAIN req.actionItems.a[2].f
  /\ emailContent.rows[1][3] = "Not specified"

\* the display string of a recipient when an empty email counts as present
DisplayIfPresent(r) ==
  IF r.t = "string" THEN r.s
  ELSE IF "email" \in DOMAIN r.f THEN r.f.email.s ELSE "[object Object]"

\* the display string of a recipient when an empty email counts as absent
DisplayIfNonEmpty(r) ==
  IF r.t = "string" THEN r.s
  ELSE IF "email" \in DOMAIN r.f /\ r.f.email.s # "" THEN r.f.email.s
  ELSE "[object Object]"

\* the display strings with ", " between neighbours
RECURSIVE Listed(_)
Listed(ds) ==
  IF Len(ds) = 1 THEN ds
  ELSE Listed(SubSeq(ds, 1, Len(ds) - 1)) \o <<", ", ds[Len(ds)]>>

\* the banner of an empty or unsupplied list is the literal, not the empty string
BannerFallback ==
  RecipientSeq = <<>> =>
     /\ emailContent.banner = <<"No recipients selected">>
     /\ ~IsEmptyText(emailContent.banner)

\* C9 as stated: a record contributes its email field whenever it has one.
C9_BannerAsStated ==
  (Rendered /\ variant = "resend" /\ emailContent.ok) =>
     /\ BannerFallback
     /\ RecipientSeq # <<>> =>
          emailContent.banner = Listed([i \in DOMAIN RecipientSeq |-> DisplayIfPresent(RecipientSeq[i])])

\* C9, amended: the banner lists the display strings in order with ", "
\* between them; a string shows verbatim, a record shows its email field when
\* that is a non-empty string and its string coercion otherwise; an empty or
\* unsupplied list shows "No recipients selected".
C9_Banner ==
  (Rendered /\ variant = "resend" /\ emailContent.ok) =>
     /\ BannerFallback
     /\ RecipientSeq # <<>> =>
          emailContent.banner = Listed([i \in DOMAIN RecipientSeq |-> DisplayIfNonEmpty(RecipientSeq[i])])

C9_Witness ==
  /\ Rendered /\ variant = "resend" /\ emailContent.ok
  /\ Len(RecipientSeq) = 3
  /\ RecipientSeq[1].t = "string"
  /\ RecipientSeq[2].t = "object" /\ "email" \in DOMAIN RecipientSeq[2].f
  /\ RecipientSeq[3].t = "object" /\ "email" \notin DOMAIN RecipientSeq[3].f
  /\ emailContent.banner = <<"a@x.com", ", ", "b@x.com", ", ", "[object Object]">>

====
